---- MODULE Spec2Model ----
(***************************************************************************)
(* A model of the quantitative valuation and simulation engine of          *)
(* StocksAnalyser2025: the DCF calculator page with dcf_from_fcf_list and  *)
(* its starting cash flow (compute_fcff_ttm), calculate_dcf_valor,         *)
(* monte_carlo_simulation, analyze_price_action with the Stock Info page's *)
(* signal, and compute_rsi.                                                *)
(*                                                                         *)
(* Python floats are modelled as exact rationals <<n, d>> (d > 0, lowest   *)
(* terms); None is the empty tuple; a raised exception is a record         *)
(* [status |-> <exception name>].                                          *)
(***************************************************************************)
EXTENDS Integers, Sequences, FiniteSets, TLC

VARIABLES
    page,   \* the DCF calculator page's script run: [pc, in, results, err]
    valor,  \* a call of calculate_dcf_valor: [pc, in, out]
    mc,     \* a call of monte_carlo_simulation and the page's final prices:
            \*   [pc, in, mean_return, vol, simulations, i, prices, rng,
            \*   final_prices, stats]
    pa,     \* the Stock Info page's price-action block and its call of
            \*   analyze_price_action: [pc, orig, df, lib, snap, score,
            \*   explanations, signal, err, call, first]
    rsiCall, \* a call of compute_rsi: [pc, series, avg_gain, avg_loss, out]
    flow,   \* the DCF page's starting cash flow: compute_fcff_ttm and the
            \*   page's fallbacks: [pc, in, ocf, capex, interest, fcff_ttm,
            \*   flow_label, method]
    fib,    \* the Market Analysis page's Fibonacci levels: [pc, close,
            \*   level_3y, level_5y, level_10y, comment, shown]
    cache,  \* the stock-info caches and the clock: [now, json, csv, memo,
            \*   out]
    session, \* the browser session's login state and the clock: [now,
            \*   authenticated, last_activity, page, view, idle]
    equiv   \* the two DCF implementations run on the same figures: [pc, in,
            \*   valor_ev, valor_equity, page]

vars == <<page, valor, mc, pa, rsiCall, flow, fib, cache, session, equiv>>

None == <<>>

(***************************************************************************)
(* Exact arithmetic standing for the float arithmetic of the source.       *)
(***************************************************************************)
Abs(x) == IF x < 0 THEN -x ELSE x

RECURSIVE Gcd(_, _)
Gcd(a, b) == IF b = 0 THEN a ELSE Gcd(b, a % b)

\* n/d in lowest terms with a positive denominator (d # 0)
Norm(n, d) ==
    LET g == Gcd(Abs(n), Abs(d))
        s == IF d < 0 THEN -1 ELSE 1
    IN  <<(s * n) \div g, (s * d) \div g>>

Rat(i) == <<i, 1>>
Zero == Rat(0)
One == Rat(1)

\* the operands are in lowest terms; common factors are cancelled before
\* multiplying so that intermediate products stay small
RAdd(a, b) ==
    LET g == Gcd(a[2], b[2])
    IN  Norm(a[1] * (b[2] \div g) + b[1] * (a[2] \div g), (a[2] \div g) * b[2])
RSub(a, b) == RAdd(a, <<-b[1], b[2]>>)
RMul(a, b) ==
    LET g1 == Gcd(Abs(a[1]), b[2])
        g2 == Gcd(Abs(b[1]), a[2])
    IN  Norm((a[1] \div g1) * (b[1] \div g2), (a[2] \div g2) * (b[2] \div g1))
\* a / b for b # 0
RDiv(a, b) == RMul(a, Norm(b[2], b[1]))
RLt(a, b) ==
    LET g == Gcd(a[2], b[2])
    IN  a[1] * (b[2] \div g) < b[1] * (a[2] \div g)
RLe(a, b) ==
    LET g == Gcd(a[2], b[2])
    IN  a[1] * (b[2] \div g) <= b[1] * (a[2] \div g)
IsZero(a) == a[1] = 0

RECURSIVE RPow(_, _)
RPow(a, k) == IF k = 0 THEN One ELSE RMul(a, RPow(a, k - 1))

RECURSIVE RSum(_)
RSum(s) == IF s = <<>> THEN Zero ELSE RAdd(Head(s), RSum(Tail(s)))

\* the two floats that are no numbers
NaN == <<0, 0>>
Inf == <<1, 0>>

\* np.nansum: the sum of the values that are not NaN
NanSum(s) == RSum(SelectSeq(s, LAMBDA v : v # NaN))

\* Python's `x or default` on an optional float: None and 0.0 are both falsy
OrDefault(x, default) == IF x = None \/ IsZero(x) THEN default ELSE x

(***************************************************************************)
(* dcf_from_fcf_list (pages/6_DCF_Calculator.py)                           *)
(***************************************************************************)
DefaultExitMultiple == Rat(10)

ZeroDivisionError == [status |-> "ZeroDivisionError"]

\* pv_years with the first year left undiscounted
PvYearsFromZero(fcf_list, discount_rate) ==
    [i \in 1..Len(fcf_list) |->
        RDiv(fcf_list[i], RPow(RAdd(One, discount_rate), i - 1))]

\* pv_years: fcf_i / (1 + r)^i for i = 1..N
PvYears(fcf_list, discount_rate) ==
    [i \in 1..Len(fcf_list) |->
        RDiv(fcf_list[i], RPow(RAdd(One, discount_rate), i))]

\* the undiscounted terminal value; the caller has excluded a zero divisor
TerminalValue(fcf_list, discount_rate, terminal_growth, exit_multiple, method) ==
    IF method = "gordon"
    THEN LET g == OrDefault(terminal_growth, Zero)
         IN  RDiv(RMul(fcf_list[Len(fcf_list)], RAdd(One, g)),
                  RSub(discount_rate, g))
    ELSE LET mult == OrDefault(exit_multiple, DefaultExitMultiple)
         IN  RMul(fcf_list[Len(fcf_list)], mult)

\* the float divisions of the function that raise on a zero divisor
DcfDividesByZero(discount_rate, terminal_growth, method) ==
    \/ IsZero(RAdd(One, discount_rate))
    \/ /\ method = "gordon"
       /\ IsZero(RSub(discount_rate, OrDefault(terminal_growth, Zero)))

dcf_from_fcf_list(fcf_list, discount_rate, terminal_growth, exit_multiple, method) ==
    IF DcfDividesByZero(discount_rate, terminal_growth, method)
    THEN ZeroDivisionError
    ELSE LET pv_years == PvYears(fcf_list, discount_rate)
             terminal == TerminalValue(fcf_list, discount_rate, terminal_growth,
                                       exit_multiple, method)
             N == Len(fcf_list)
             pv_terminal == RDiv(terminal, RPow(RAdd(One, discount_rate), N))
         IN  [status |-> "ok",
              pv_years |-> pv_years,
              pv_terminal |-> pv_terminal,
              ev |-> RAdd(NanSum(pv_years), pv_terminal),
              terminal |-> terminal]

(***************************************************************************)
(* The DCF calculator page: one run of the script.                         *)
(***************************************************************************)
\* explicit forecast years checked (the page has five growth sliders)
PageYears == 2

ScenarioOrder == <<"Bull", "Base", "Bear">>

\* widget values, as fractions: growth sliders 0..150 %, terminal growth
\* 0..6 %, discount rates 0..30 %, exit multiple >= 1, starting cash flow >= 0
GrowthSliders == {Zero, <<1, 2>>}
TerminalGrowthSlider == {Zero, <<1, 20>>}
DiscountSliders == {Zero, <<1, 20>>, <<1, 4>>}
ExitMultipleInput == {Rat(1), Rat(22)}
StartingCfInput == {Rat(1), Rat(2)}
NetCashInput == {Rat(-1), Rat(3)}
SharesInput == {0, 1, 2}

\* Build explicit CFs from the starting CF: each year compounds on the last
RECURSIVE BuildFcfList(_, _)
\* cash flows that stay at the starting figure
BuildFcfListFlat(prev, rates) == [k \in 1..Len(rates) |-> prev]

BuildFcfList(prev, rates) ==
    IF rates = <<>> THEN <<>>
    ELSE LET nxt == RMul(prev, RAdd(One, Head(rates)))
         IN  <<nxt>> \o BuildFcfList(nxt, Tail(rates))

\* run_scenario with the bridge taken the wrong way: net cash subtracted
run_scenario_net_debt(in, rate) ==
    LET res == dcf_from_fcf_list(in.fcf_list, rate, in.terminal_growth,
                                 in.exit_multiple,
                                 IF in.method = "Gordon Growth"
                                 THEN "gordon" ELSE "exit_multiple")
    IN  IF res.status # "ok" THEN res
        ELSE LET ev == res.ev
                 equity == RSub(ev, in.net_cash)
                 per_share == IF in.shares # 0
                              THEN RDiv(equity, Rat(in.shares)) ELSE None
             IN  [status |-> "ok", res |-> res, ev |-> ev, equity |-> equity,
                  per_share |-> per_share]

run_scenario(in, rate) ==
    LET res == dcf_from_fcf_list(in.fcf_list, rate, in.terminal_growth,
                                 in.exit_multiple,
                                 IF in.method = "Gordon Growth"
                                 THEN "gordon" ELSE "exit_multiple")
    IN  IF res.status # "ok" THEN res
        ELSE LET ev == res.ev
                 equity == RAdd(ev, in.net_cash)
                 per_share == IF in.shares # 0
                              THEN RDiv(equity, Rat(in.shares)) ELSE None
             IN  [status |-> "ok", res |-> res, ev |-> ev, equity |-> equity,
                  per_share |-> per_share]

NoInputs == [method |-> "unset"]

PageIdle == [pc |-> "idle", in |-> NoInputs, results |-> <<>>, err |-> None]
PageStart == [pc |-> "inputs", in |-> NoInputs, results |-> <<>>, err |-> None]

\* the widgets are read, fcf_list and the scenarios dict are built
PageReadInputs ==
    /\ page.pc = "inputs"
    /\ \E starting_cf \in StartingCfInput,
          growth \in [1..PageYears -> GrowthSliders],
          method \in {"Gordon Growth", "Exit EV/CF Multiple"},
          tg \in TerminalGrowthSlider, mult \in ExitMultipleInput,
          disc \in [1..3 -> DiscountSliders],
          net_cash \in NetCashInput, shares \in SharesInput :
        /\ method = "Gordon Growth" => mult = Rat(1)
        /\ method # "Gordon Growth" => tg = Zero
        /\ page' = [page EXCEPT
                !.pc = "scenarios",
                !.in = [method |-> method,
                        terminal_growth |-> IF method = "Gordon Growth" THEN tg ELSE None,
                        exit_multiple |-> IF method = "Gordon Growth" THEN None ELSE mult,
                        fcf_list |-> BuildFcfList(starting_cf, growth),
                        scenarios |-> disc,
                        net_cash |-> net_cash,
                        shares |-> shares]]
    /\ UNCHANGED <<valor, mc, pa, rsiCall, flow, fib, cache, session, equiv>>

\* one step of the comprehension {name: run_scenario(r) for name, r in ...}:
\* an exception of run_scenario leaves the comprehension and ends the run
PageRunScenario ==
    /\ page.pc = "scenarios"
    /\ LET k == Len(page.results) + 1
           r == run_scenario(page.in, page.in.scenarios[k])
       IN  IF r.status # "ok"
           THEN page' = [page EXCEPT !.err = r, !.pc = "crashed"]
           ELSE page' = [page EXCEPT
                    !.results = Append(page.results, r),
                    !.pc = IF k = Len(ScenarioOrder) THEN "table" ELSE "scenarios"]
    /\ UNCHANGED <<valor, mc, pa, rsiCall, flow, fib, cache, session, equiv>>

\* the results table is rendered from the complete dict
PageRenderTable ==
    /\ page.pc = "table"
    /\ page' = [page EXCEPT !.pc = "done"]
    /\ UNCHANGED <<valor, mc, pa, rsiCall, flow, fib, cache, session, equiv>>

\* any interaction reruns the script from the top
PageRerun ==
    /\ page.pc \in {"done", "crashed"}
    /\ page' = PageStart
    /\ UNCHANGED <<valor, mc, pa, rsiCall, flow, fib, cache, session, equiv>>

(***************************************************************************)
(* calculate_dcf_valor (utils/utils.py)                                    *)
(***************************************************************************)
\* horizons checked: years in 0..MaxValorYears (the default is 5)
MaxValorYears == 2

\* info.get(key, default) for a key that may be absent
InfoGet(v, default) == IF v = None THEN default ELSE v

\* Python truthiness of an optional number
Falsy(v) == v = None \/ IsZero(v)

\* round(x, 2): the nearest multiple of 1/100, ties to the even one
Round2(a) ==
    LET n == a[1] * 100
        q == n \div a[2]
        twice == 2 * (n - q * a[2])
    IN  IF twice < a[2] THEN Norm(q, 100)
        ELSE IF twice > a[2] THEN Norm(q + 1, 100)
        ELSE IF q % 2 = 0 THEN Norm(q, 100) ELSE Norm(q + 1, 100)

\* project_fcf: revenue compounded at growth_rate, times the FCF margin
RECURSIVE ProjectFrom(_, _, _, _)
ProjectFrom(rev, growth_rate, fcf_margin, n) ==
    IF n = 0 THEN <<>>
    ELSE LET nxt == RMul(rev, RAdd(One, growth_rate))
         IN  <<RMul(nxt, fcf_margin)>> \o ProjectFrom(nxt, growth_rate, fcf_margin, n - 1)

\* project_fcf with the growth applied with the wrong sign
project_fcf_shrinking(in, growth_rate) ==
    ProjectFrom(in.revenue, RSub(Zero, growth_rate), RDiv(in.free_cf, in.revenue),
                in.years)

project_fcf(in, growth_rate) ==
    ProjectFrom(in.revenue, growth_rate, RDiv(in.free_cf, in.revenue), in.years)

\* discount_cash_flows: an enterprise value, or the exception it raises
discount_cash_flows(in, fcf_list) ==
    IF RLe(in.discount_rate, in.terminal_growth_rate)
    THEN [status |-> "Error",
          msg |-> "Terminal growth rate must be less than discount rate."]
    ELSE IF IsZero(RAdd(One, in.discount_rate)) /\ fcf_list # <<>>
    THEN [status |-> "Error", msg |-> "float division by zero"]
    ELSE IF fcf_list = <<>>
    THEN [status |-> "Error", msg |-> "list index out of range"]
    ELSE LET discounted ==
                 [i \in 1..Len(fcf_list) |->
                     RDiv(fcf_list[i], RPow(RAdd(One, in.discount_rate), i))]
             terminal_value ==
                 RDiv(RMul(fcf_list[Len(fcf_list)], RAdd(One, in.terminal_growth_rate)),
                      RSub(in.discount_rate, in.terminal_growth_rate))
             terminal_discounted ==
                 RDiv(terminal_value, RPow(RAdd(One, in.discount_rate), in.years))
         IN  [status |-> "ok", value |-> RAdd(RSum(discounted), terminal_discounted)]

\* one scenario's valuation: discount_cash_flows(project_fcf(g)) - net_debt
Valuation(in, growth_rate) ==
    LET dcf == discount_cash_flows(in, project_fcf(in, growth_rate))
        net_debt == RSub(InfoGet(in.total_debt, Zero), InfoGet(in.cash, Zero))
    IN  IF dcf.status # "ok" THEN dcf
        ELSE [status |-> "ok", value |-> RSub(dcf.value, net_debt)]

PerShare(in, valuation) == Round2(RDiv(valuation.value, in.shares_outstanding))

\* the function with only absent fundamentals rejected, a zero accepted
calculate_dcf_valor_none_only(in) ==
    IF in.revenue = None \/ in.free_cf = None \/ in.shares_outstanding = None
       \/ IsZero(in.revenue) \/ IsZero(in.shares_outstanding)
    THEN [status |-> "Error", msg |-> "Missing required financial data."]
    ELSE LET base_valuation == Valuation(in, in.revenue_growth_base)
             bull_valuation == Valuation(in, in.revenue_growth_bull)
             bear_valuation == Valuation(in, in.revenue_growth_bear)
         IN  IF base_valuation.status # "ok" THEN base_valuation
             ELSE IF bull_valuation.status # "ok" THEN bull_valuation
             ELSE IF bear_valuation.status # "ok" THEN bear_valuation
             ELSE [status |-> "ok",
                   Base |-> PerShare(in, base_valuation),
                   Bull |-> PerShare(in, bull_valuation),
                   Bear |-> PerShare(in, bear_valuation),
                   CurrentPrice |-> InfoGet(in.current_price, Zero)]

calculate_dcf_valor(in) ==
    IF Falsy(in.revenue) \/ Falsy(in.free_cf) \/ Falsy(in.shares_outstanding)
    THEN [status |-> "Error", msg |-> "Missing required financial data."]
    ELSE LET base_valuation == Valuation(in, in.revenue_growth_base)
             bull_valuation == Valuation(in, in.revenue_growth_bull)
             bear_valuation == Valuation(in, in.revenue_growth_bear)
         IN  IF base_valuation.status # "ok" THEN base_valuation
             ELSE IF bull_valuation.status # "ok" THEN bull_valuation
             ELSE IF bear_valuation.status # "ok" THEN bear_valuation
             ELSE [status |-> "ok",
                   Base |-> PerShare(in, base_valuation),
                   Bull |-> PerShare(in, bull_valuation),
                   Bear |-> PerShare(in, bear_valuation),
                   CurrentPrice |-> InfoGet(in.current_price, Zero)]

\* the fundamentals yfinance reports (None: the field is absent) and the
\* arguments of the call
RevenueValues == {None, Rat(4)}
FreeCfValues == {None, Zero, Rat(-2), Rat(2)}
SharesValues == {None, Rat(3)}
DebtValues == {None, Rat(5)}
CashValues == {None, Rat(1)}
GrowthRates == {Zero, <<1, 4>>, <<1, 2>>}
ValorDiscountRates == {<<1, 4>>, <<1, 2>>}
ValorTerminalRates == {Zero, <<1, 4>>, <<1, 2>>}

ValorInputs ==
    [revenue : RevenueValues, free_cf : FreeCfValues,
     shares_outstanding : SharesValues, current_price : {None},
     total_debt : DebtValues, cash : CashValues,
     revenue_growth_base : GrowthRates, revenue_growth_bull : GrowthRates,
     revenue_growth_bear : GrowthRates, discount_rate : ValorDiscountRates,
     years : 0..MaxValorYears, terminal_growth_rate : ValorTerminalRates]

NoValorInput == [years |-> 0]

ValorIdle == [pc |-> "idle", in |-> NoValorInput, out |-> None]

ValorCall ==
    /\ valor.pc = "call"
    /\ valor' = [valor EXCEPT !.out = calculate_dcf_valor(valor.in), !.pc = "returned"]
    /\ UNCHANGED <<page, mc, pa, rsiCall, flow, fib, cache, session, equiv>>

(***************************************************************************)
(* monte_carlo_simulation (utils/utils.py)                                 *)
(*                                                                         *)
(* A simulated price is [base, expo], standing for base * e^expo: the      *)
(* normal mode multiplies the base, the log-normal mode adds to the        *)
(* exponent, so neither needs a value of exp.                              *)
(***************************************************************************)
\* paths and days checked
MaxSims == 2
MaxDays == 2

\* data['Close'].pct_change().dropna(): (c[k+1] - c[k]) / c[k]
PctChange(close) ==
    [k \in 1..(Len(close) - 1) |-> RDiv(RSub(close[k + 1], close[k]), close[k])]

Mean(xs) == RDiv(RSum(xs), Rat(Len(xs)))

\* the root of a perfect square
ISqrt(n) == CHOOSE k \in 0..n : k * k = n
RSqrt(a) == <<ISqrt(a[1]), ISqrt(a[2])>>

\* Series.std(): the sample standard deviation (ddof = 1)
Std(xs) ==
    LET m == Mean(xs)
        sq == [k \in 1..Len(xs) |-> RMul(RSub(xs[k], m), RSub(xs[k], m))]
    IN  RSqrt(RDiv(RSum(sq), Rat(Len(xs) - 1)))

\* vol = volatility if volatility else daily_returns.std()
ChooseVol(volatility, daily_returns) ==
    IF volatility = None \/ IsZero(volatility) THEN Std(daily_returns) ELSE volatility

\* np.zeros((n_simulations, n_days))
ZeroPrice == [base |-> Zero, expo |-> Zero]
Zeros(rows, cols) == [r \in 1..rows |-> [c \in 1..cols |-> ZeroPrice]]

\* a next price that adds the day's return instead of compounding it
NextPriceAdditive(prev, drift, shock, log_normal) ==
    [prev EXCEPT !.base = RAdd(prev.base, RAdd(drift, shock))]

\* a next price that compounds arithmetically in both modes
NextPriceArithmetic(prev, drift, shock, log_normal) ==
    [prev EXCEPT !.base = RMul(prev.base, RAdd(One, RAdd(drift, shock)))]

\* the next price of a path from the previous one and the day's shock
NextPrice(prev, drift, shock, log_normal) ==
    IF log_normal
    THEN [prev EXCEPT !.expo = RAdd(prev.expo, RAdd(drift, shock))]
    ELSE [prev EXCEPT !.base = RMul(prev.base, RAdd(One, RAdd(drift, shock)))]

\* closing-price histories whose daily returns have a rational deviation:
\* returns (-1/2, 0, 1/2), (0, 1/2, 1), (0, 0, 0) and (-1/4, 0, 1/4)
Histories ==
    {<<Rat(4), Rat(2), Rat(2), Rat(3)>>, <<Rat(4), Rat(4), Rat(6), Rat(12)>>,
     <<Rat(5), Rat(5), Rat(5), Rat(5)>>, <<Rat(16), Rat(12), Rat(12), Rat(15)>>}

VolatilityArgs == {None, Zero, <<1, 4>>, One}

\* np.random.normal(0, vol): vol times a standard normal draw. The draws
\* come from numpy's global generator: in.stream is the sequence of standard
\* draws its state at the time of the call determines, as far as the call
\* consumes it, and mc.rng counts the draws taken from it.
StandardDraws == {Rat(-2), Rat(2)}

Streams(len) == [1..len -> StandardDraws]

McInputs ==
    UNION {[close : Histories, n_simulations : {n}, n_days : {d},
            log_normal : BOOLEAN, volatility : VolatilityArgs,
            stream : Streams(IF n < 0 THEN 0 ELSE n * d)] :
           n \in (-1)..MaxSims, d \in 0..MaxDays}

NoMcInput == [n_simulations |-> 0, n_days |-> 0]

McIdle == [pc |-> "idle", in |-> NoMcInput, mean_return |-> None, vol |-> None,
           simulations |-> <<>>, i |-> 0, prices |-> <<>>, rng |-> 0,
           final_prices |-> None, stats |-> "none"]

\* prices[:-1]: the row keeps the seed price and drops the last day
StoredRowWithSeed(prices) == SubSeq(prices, 1, Len(prices) - 1)

\* the whole list, the seed price included
StoredRowWhole(prices) == prices

\* prices[1:]
StoredRow(prices) == Tail(prices)

McLastPrice == [base |-> mc.in.close[Len(mc.in.close)], expo |-> Zero]

\* lines 228-233: the returns, their mean, vol, and the zero matrix, whose
\* allocation raises ValueError for a negative dimension
McSetup ==
    /\ mc.pc = "call"
    /\ LET daily_returns == PctChange(mc.in.close)
       IN  mc' = [mc EXCEPT
                !.mean_return = Mean(daily_returns),
                !.vol = ChooseVol(mc.in.volatility, daily_returns),
                !.simulations =
                    IF mc.in.n_simulations < 0 THEN <<>>
                    ELSE Zeros(mc.in.n_simulations, mc.in.n_days),
                !.pc = IF mc.in.n_simulations < 0 THEN "ValueError" ELSE "outer"]
    /\ UNCHANGED <<page, valor, pa, rsiCall, flow, fib, cache, session, equiv>>

\* for i in range(n_simulations): prices = [last_price]
McStartPath ==
    /\ mc.pc = "outer"
    /\ mc.i < mc.in.n_simulations
    /\ mc' = [mc EXCEPT !.prices = <<McLastPrice>>, !.pc = "inner"]
    /\ UNCHANGED <<page, valor, pa, rsiCall, flow, fib, cache, session, equiv>>

\* for j in range(n_days): one shock, one appended price
McDay ==
    /\ mc.pc = "inner"
    /\ Len(mc.prices) - 1 < mc.in.n_days
    /\ LET shock == RMul(mc.vol, mc.in.stream[mc.rng + 1])
       IN  mc' = [mc EXCEPT
                !.rng = mc.rng + 1,
                !.prices =
                  Append(mc.prices,
                         NextPrice(mc.prices[Len(mc.prices)], mc.mean_return, shock,
                                   mc.in.log_normal))]
    /\ UNCHANGED <<page, valor, pa, rsiCall, flow, fib, cache, session, equiv>>

\* simulations[i] = prices[1:]
McStoreRow ==
    /\ mc.pc = "inner"
    /\ Len(mc.prices) - 1 = mc.in.n_days
    /\ mc' = [mc EXCEPT !.simulations[mc.i + 1] = StoredRow(mc.prices),
                        !.i = mc.i + 1,
                        !.pc = "outer"]
    /\ UNCHANGED <<page, valor, pa, rsiCall, flow, fib, cache, session, equiv>>

\* return simulations
McReturn ==
    /\ mc.pc = "outer"
    /\ mc.i >= mc.in.n_simulations
    /\ mc' = [mc EXCEPT !.pc = "returned"]
    /\ UNCHANGED <<page, valor, pa, rsiCall, flow, fib, cache, session, equiv>>

\* Monte Carlo Simulations page, line 59 (monte_carlo.py, line 40): the
\* horizons the two sliders give
DaysPerYear == 252
DaysPerMonth == 21
YearsSlider == 0..10
MonthsSlider == 0..11
total_days(n_years, n_months) ==
    (n_years * DaysPerYear) + (n_months * DaysPerMonth)
Horizons == {total_days(y, m) : y \in YearsSlider, m \in MonthsSlider}

\* Monte Carlo Simulations page, lines 62-71 (monte_carlo.py, lines 42-49):
\* simulations[:, -1] and the statistics of the final prices. The page's
\* slider gives n_simulations >= 100; the matrix has n_days columns, and
\* index -1 of an axis of size 0 raises IndexError
McFinalPrices ==
    /\ mc.pc = "returned"
    /\ mc.stats = "none"
    /\ mc.in.n_simulations > 0
    /\ LET sims == mc.simulations
       IN  mc' = IF \E r \in 1..Len(sims) : Len(sims[r]) = 0
                 THEN [mc EXCEPT !.stats = "IndexError"]
                 ELSE [mc EXCEPT
                         !.final_prices =
                             [r \in 1..Len(sims) |-> sims[r][Len(sims[r])]],
                         !.stats = "computed"]
    /\ UNCHANGED <<page, valor, pa, rsiCall, flow, fib, cache, session, equiv>>

(***************************************************************************)
(* analyze_price_action (utils/utils.py) and the signal the Stock Info     *)
(* page derives from its score.                                            *)
(*                                                                         *)
(* A frame is [bars, columns]: its number of rows and its column names.    *)
(* The indicator values come from the ta library: the model takes the      *)
(* number of leading rows each indicator leaves undefined from the window  *)
(* it is built with, and the values of the two rows read as any values.    *)
(***************************************************************************)
RequiredCols == {"Close", "High", "Low", "Volume"}

IndicatorCols ==
    {"RSI", "Tenkan_sen", "Kijun_sen", "Senkou_span_a", "Senkou_span_b",
     "bb_high", "bb_low", "macd", "macd_signal"}

\* the windows the indicators are built with
RsiWindow == 14
Window1 == 9
Window2 == 26
Window3 == 52
BbWindow == 20
MacdSlow == 26
MacdSign == 9

Max(a, b) == IF a > b THEN a ELSE b

\* the first row (from 1) at which a column has a value; lib.span_b_partial
\* is whether the library computes span B from partial windows
FirstValid(col, lib) ==
    CASE col = "RSI" -> RsiWindow
      [] col = "Tenkan_sen" -> Window1
      [] col = "Kijun_sen" -> Window2
      [] col = "Senkou_span_a" -> Max(Window1, Window2)
      [] col = "Senkou_span_b" -> IF lib.span_b_partial THEN 1 ELSE Window3
      [] col \in {"bb_high", "bb_low"} -> BbWindow
      [] col = "macd" -> MacdSlow
      [] col = "macd_signal" -> MacdSlow + MacdSign - 1
      [] OTHER -> 1

RECURSIVE SetMax(_)
SetMax(S) ==
    IF S = {} THEN 0
    ELSE LET x == CHOOSE y \in S : TRUE IN Max(x, SetMax(S \ {x}))

\* df.dropna(): the rows in which every column has a value
CompleteRows(df, lib) ==
    LET first == SetMax({FirstValid(c, lib) : c \in df.columns})
    IN  IF df.bars < first THEN 0 ELSE df.bars - first + 1

\* the RSI rule with both ends of the band counted as bullish
RsiRuleInclusive(rsi) ==
    IF 50 <= rsi /\ rsi <= 70
    THEN [pts |-> 2, text |-> "RSI is strong and bullish."]
    ELSE IF rsi > 70
    THEN [pts |-> 0, text |-> "RSI indicates overbought conditions."]
    ELSE [pts |-> 0, text |-> "RSI is bearish or neutral."]

\* the six rules, each [pts, text]
RsiRule(rsi) ==
    IF 50 < rsi /\ rsi < 70
    THEN [pts |-> 2, text |-> "RSI is strong and bullish."]
    ELSE IF rsi >= 70
    THEN [pts |-> 0, text |-> "RSI indicates overbought conditions."]
    ELSE [pts |-> 0, text |-> "RSI is bearish or neutral."]

CloudRule(price, span_a, span_b) ==
    IF price > span_a /\ price > span_b
    THEN [pts |-> 2, text |-> "Price is above the cloud (bullish)."]
    ELSE IF price < span_a /\ price < span_b
    THEN [pts |-> 0, text |-> "Price is below the cloud (bearish)."]
    ELSE [pts |-> 0, text |-> "Price is within the cloud (neutral)."]

TenkanRule(tenkan, kijun) ==
    IF tenkan > kijun
    THEN [pts |-> 1, text |-> "Bullish crossover of Tenkan-sen over Kijun-sen."]
    ELSE [pts |-> 0, text |-> "No bullish crossover on Ichimoku."]

\* the volume rule giving two points for a volume above average
VolumeRulePlusTwo(recent_volume, avg_volume) ==
    IF recent_volume > avg_volume
    THEN [pts |-> 2, text |-> "Volume is higher than average (strong interest)."]
    ELSE [pts |-> 0, text |-> "Volume is below average."]

VolumeRule(recent_volume, avg_volume) ==
    IF recent_volume > avg_volume
    THEN [pts |-> 1, text |-> "Volume is higher than average (strong interest)."]
    ELSE [pts |-> 0, text |-> "Volume is below average."]

\* the Bollinger rule taking two points off above the upper band
BollingerRuleMinusTwo(price, bb_high, bb_low) ==
    IF price > bb_high
    THEN [pts |-> -2,
          text |-> "Price is above upper Bollinger Band (potentially overbought)."]
    ELSE IF price < bb_low
    THEN [pts |-> 1,
          text |-> "Price is below lower Bollinger Band (potentially oversold)."]
    ELSE [pts |-> 0, text |-> "Price is within Bollinger Bands (neutral)."]

BollingerRule(price, bb_high, bb_low) ==
    IF price > bb_high
    THEN [pts |-> -1,
          text |-> "Price is above upper Bollinger Band (potentially overbought)."]
    ELSE IF price < bb_low
    THEN [pts |-> 1,
          text |-> "Price is below lower Bollinger Band (potentially oversold)."]
    ELSE [pts |-> 0, text |-> "Price is within Bollinger Bands (neutral)."]

\* MACD crossovers that also count a bar where MACD equals its signal
MacdRuleNonStrict(prev_macd, prev_signal, recent_macd, recent_signal) ==
    IF prev_macd <= prev_signal /\ recent_macd >= recent_signal
    THEN [pts |-> 2, text |-> "MACD bullish crossover."]
    ELSE IF prev_macd >= prev_signal /\ recent_macd <= recent_signal
    THEN [pts |-> -2, text |-> "MACD bearish crossover."]
    ELSE [pts |-> 0, text |-> "MACD is neutral."]

MacdRule(prev_macd, prev_signal, recent_macd, recent_signal) ==
    IF prev_macd < prev_signal /\ recent_macd > recent_signal
    THEN [pts |-> 2, text |-> "MACD bullish crossover."]
    ELSE IF prev_macd > prev_signal /\ recent_macd < recent_signal
    THEN [pts |-> -2, text |-> "MACD bearish crossover."]
    ELSE [pts |-> 0, text |-> "MACD is neutral."]

\* the rules with an early exit on an overbought RSI
RulesEarlyExit(snap) ==
    IF snap.rsi >= 70 THEN <<RsiRule(snap.rsi)>>
    ELSE <<RsiRule(snap.rsi),
           CloudRule(snap.price, snap.span_a, snap.span_b),
           TenkanRule(snap.tenkan, snap.kijun),
           VolumeRule(snap.recent_volume, snap.avg_volume),
           BollingerRule(snap.price, snap.bb_high, snap.bb_low),
           MacdRule(snap.prev_macd, snap.prev_signal, snap.recent_macd,
                    snap.recent_signal)>>

\* lines 499-555: the rules in order, their points summed
Rules(snap) ==
    <<RsiRule(snap.rsi),
      CloudRule(snap.price, snap.span_a, snap.span_b),
      TenkanRule(snap.tenkan, snap.kijun),
      VolumeRule(snap.recent_volume, snap.avg_volume),
      BollingerRule(snap.price, snap.bb_high, snap.bb_low),
      MacdRule(snap.prev_macd, snap.prev_signal, snap.recent_macd,
               snap.recent_signal)>>

RECURSIVE SumPts(_)
SumPts(rs) == IF rs = <<>> THEN 0 ELSE Head(rs).pts + SumPts(Tail(rs))

Texts(rs) == [k \in 1..Len(rs) |-> rs[k].text]

\* the signal with BUY only above 7
SignalAboveSeven(score) ==
    IF score > 7 THEN "BUY" ELSE IF score >= 4 THEN "HOLD" ELSE "SELL"

\* Stock Info page, line 88: the maximum the score is displayed against
max_score == 9

\* Stock Info page, lines 115-124
Signal(score) ==
    IF score >= 7 THEN "BUY" ELSE IF score >= 4 THEN "HOLD" ELSE "SELL"

\* frames given to the function: their lengths around the indicators'
\* warm-up, up to MaxBars, with and without the Volume column
MaxBars == 54
BarCounts == {1, 33, 34, 35, 51, 52, 53, MaxBars}
Frames ==
    [bars : BarCounts, columns : {RequiredCols, RequiredCols \ {"Volume"}}]

\* the two behaviours of the library for span B
Libs == [span_b_partial : BOOLEAN]

\* the values read from the last two complete rows: a level compared with
\* the price is below, at or above it; RSI takes both ends of (50, 70)
Levels == 1..3
Price == CHOOSE p \in Levels : p - 1 \in Levels /\ p + 1 \in Levels
RsiValues == {40, 50, 60, 70, 80}
ComparedPairs == {<<1, 2>>, <<2, 2>>, <<2, 1>>}
BandPairs == {b \in Levels \X Levels : b[1] <= b[2]}

NoSnap == [price |-> 0]

PaIdle == [pc |-> "idle", orig |-> [bars |-> 0, columns |-> {}],
           df |-> [bars |-> 0, columns |-> {}], lib |-> [span_b_partial |-> FALSE],
           snap |-> NoSnap, score |-> 0, explanations |-> <<>>,
           signal |-> "", err |-> "", call |-> 1, first |-> None]

\* lines 436-440: a missing required column raises ValueError
PaCheckColumns ==
    /\ pa.pc = "call"
    /\ IF RequiredCols \subseteq pa.df.columns
       THEN pa' = [pa EXCEPT !.pc = "indicators"]
       ELSE pa' = [pa EXCEPT !.pc = "raised", !.err = "Missing required column"]
    /\ UNCHANGED <<page, valor, mc, rsiCall, flow, fib, cache, session, equiv>>

\* lines 458-474: the indicator columns are assigned into the caller's frame
PaAddIndicators ==
    /\ pa.pc = "indicators"
    /\ pa' = [pa EXCEPT !.df.columns = pa.df.columns \cup IndicatorCols,
                        !.pc = "dropna"]
    /\ UNCHANGED <<page, valor, mc, rsiCall, flow, fib, cache, session, equiv>>

\* lines 476-479: df = df.dropna() rebinds the local name only
PaDropna ==
    /\ pa.pc = "dropna"
    /\ IF CompleteRows(pa.df, pa.lib) = 0
       THEN pa' = [pa EXCEPT !.pc = "raised",
                             !.err = "Not enough data to compute indicators"]
       ELSE pa' = [pa EXCEPT !.pc = "rows"]
    /\ UNCHANGED <<page, valor, mc, rsiCall, flow, fib, cache, session, equiv>>

\* lines 481-555: iloc[-1] and iloc[-2] of the complete rows (IndexError when
\* there is one row only), then the score. The indicator values are computed
\* from the price columns, which no step changes: a second call on the same
\* frame reads the values the first call read.
PaScore ==
    /\ pa.pc = "rows"
    /\ IF CompleteRows(pa.df, pa.lib) < 2
       THEN pa' = [pa EXCEPT !.pc = "raised", !.err = "IndexError"]
       ELSE IF pa.call > 1
       THEN pa' = [pa EXCEPT !.score = SumPts(Rules(pa.snap)),
                             !.explanations = Texts(Rules(pa.snap)),
                             !.pc = "returned"]
       ELSE \E rsi \in RsiValues, span_a \in Levels, span_b \in Levels,
               tk \in ComparedPairs, vol \in ComparedPairs, bb \in BandPairs,
               prev \in ComparedPairs, recent \in ComparedPairs :
              LET snap == [price |-> Price, rsi |-> rsi,
                           tenkan |-> tk[1], kijun |-> tk[2],
                           span_a |-> span_a, span_b |-> span_b,
                           recent_volume |-> vol[1], avg_volume |-> vol[2],
                           bb_low |-> bb[1], bb_high |-> bb[2],
                           prev_macd |-> prev[1], prev_signal |-> prev[2],
                           recent_macd |-> recent[1], recent_signal |-> recent[2]]
              IN  pa' = [pa EXCEPT !.snap = snap,
                                   !.score = SumPts(Rules(snap)),
                                   !.explanations = Texts(Rules(snap)),
                                   !.pc = "returned"]
    /\ UNCHANGED <<page, valor, mc, rsiCall, flow, fib, cache, session, equiv>>

\* a second call that is given the frame with its rows cut down to the
\* complete ones, as if dropna had worked on the caller's frame
PaCallAgainOnDroppedFrame ==
    /\ pa.pc = "returned"
    /\ pa.call = 1
    /\ LET left == [pa.df EXCEPT !.bars = CompleteRows(pa.df, pa.lib)]
       IN  pa' = [pa EXCEPT !.first = [score |-> pa.score,
                                       explanations |-> pa.explanations],
                            !.orig = left, !.df = left,
                            !.call = 2, !.pc = "call"]
    /\ UNCHANGED <<page, valor, mc, rsiCall, flow, fib, cache, session, equiv>>

\* the function is called again on the frame as the first call left it
PaCallAgain ==
    /\ pa.pc = "returned"
    /\ pa.call = 1
    /\ pa' = [pa EXCEPT !.first = [score |-> pa.score,
                                   explanations |-> pa.explanations],
                        !.orig = pa.df,
                        !.call = 2, !.pc = "call"]
    /\ UNCHANGED <<page, valor, mc, rsiCall, flow, fib, cache, session, equiv>>

\* Stock Info page, lines 86-124: the signal shown for the returned score
PaSignal ==
    /\ pa.pc = "returned"
    /\ pa' = [pa EXCEPT !.signal = Signal(pa.score), !.pc = "shown"]
    /\ UNCHANGED <<page, valor, mc, rsiCall, flow, fib, cache, session, equiv>>

(***************************************************************************)
(* compute_rsi (utils/utils.py)                                            *)
(*                                                                         *)
(* The float results that are no numbers are <<0, 0>> (NaN) and <<1, 0>>   *)
(* (inf).                                                                  *)
(***************************************************************************)
\* the window checked (the default period is 14)
RsiPeriod == 3

MaxSeriesLen == RsiPeriod + 2

\* series.diff(): NaN in the first row, then the change from the row before
Delta(series, k) == IF k = 1 THEN NaN ELSE RSub(series[k], series[k - 1])

\* delta.where(delta > 0, 0): a comparison with NaN is false
Gain(series, k) ==
    LET d == Delta(series, k) IN IF d # NaN /\ RLt(Zero, d) THEN d ELSE Zero

\* -delta.where(delta < 0, 0)
Loss(series, k) ==
    LET d == Delta(series, k) IN IF d # NaN /\ RLt(d, Zero) THEN RSub(Zero, d) ELSE Zero

\* rolling(window=period).mean() in the last row: NaN before the window fills
RollingMeanLast(xs, period) ==
    IF Len(xs) < period THEN NaN
    ELSE Mean([k \in 1..period |-> xs[Len(xs) - period + k]])

\* float division of pandas: x/0 is inf, 0/0 and anything with NaN is NaN
FloatDiv(a, b) ==
    IF a = NaN \/ b = NaN THEN NaN
    ELSE IF IsZero(b) THEN (IF IsZero(a) THEN NaN ELSE Inf)
    ELSE RDiv(a, b)

\* 100 - (100 / (1 + rs)): 100/(1 + inf) is 0
RsiOfRs(rs) ==
    IF rs = NaN THEN NaN
    ELSE IF rs = Inf THEN Rat(100)
    ELSE RSub(Rat(100), RDiv(Rat(100), RAdd(One, rs)))

PriceValues == {Rat(1), Rat(2), Rat(3)}

RECURSIVE SeqsUpTo(_, _)
SeqsUpTo(S, n) ==
    IF n = 0 THEN {<<>>}
    ELSE LET shorter == SeqsUpTo(S, n - 1)
         IN  shorter \cup {Append(q, x) : q \in {t \in shorter : Len(t) = n - 1}, x \in S}

RsiIdle == [pc |-> "idle", series |-> <<>>, avg_gain |-> NaN, avg_loss |-> NaN,
            out |-> NaN]

\* lines 271-278; rsiCall.iloc[-1] of an empty series raises IndexError
RsiCompute ==
    /\ rsiCall.pc = "call"
    /\ IF rsiCall.series = <<>>
       THEN rsiCall' = [rsiCall EXCEPT !.pc = "IndexError"]
       ELSE LET n == Len(rsiCall.series)
                gain == [k \in 1..n |-> Gain(rsiCall.series, k)]
                loss == [k \in 1..n |-> Loss(rsiCall.series, k)]
                avg_gain == RollingMeanLast(gain, RsiPeriod)
                avg_loss == RollingMeanLast(loss, RsiPeriod)
                rs == FloatDiv(avg_gain, avg_loss)
            IN  rsiCall' = [rsiCall EXCEPT !.avg_gain = avg_gain, !.avg_loss = avg_loss,
                                   !.out = RsiOfRs(rs), !.pc = "returned"]
    /\ UNCHANGED <<page, valor, mc, pa, flow, fib, cache, session, equiv>>

(***************************************************************************)
(* The DCF page's starting cash flow: compute_fcff_ttm and the fallbacks   *)
(* of the page (pages/6_DCF_Calculator.py).                                *)
(*                                                                         *)
(* A statement is None when yfinance gives none (None, empty, or the       *)
(* access raises: every access is inside try/except) and otherwise a       *)
(* record of its rows; a row is None when its key is not in the index.     *)
(* flow.method records the branch that produced the figure.                *)
(***************************************************************************)
\* safe_float(val, default): None and NaN give the default
safe_float(val, default) == IF val = None \/ val = NaN THEN default ELSE val

\* get_latest_val for one key: None without a statement or without the row,
\* else safe_float of the latest value (NaN becomes 0.0)
get_latest_val(df, row) ==
    IF df = None THEN None
    ELSE IF df[row] = None THEN None
    ELSE safe_float(df[row], Zero)

\* the quarterly figure annualised
QuartersPerYear == 4

\* the page's average uses at most the three latest reported values
AvgYears == 3

\* safe_float(fcff_ttm, 1_000_000_000.0)
DefaultCashFlow == Rat(1000000000)

\* the keys compute_fcff_ttm looks for a reported free-cash-flow row under
FcfKeys == {"Free Cash Flow", "FreeCashFlow", "Free Cash Flow (USD)"}

\* row.dropna()
DropNa(vals) == SelectSeq(vals, LAMBDA v : v # NaN)

\* values[:n]
FirstN(vals, n) == SubSeq(vals, 1, IF Len(vals) < n THEN Len(vals) ELSE n)

\* the statements yfinance may give
RowValues == {None, NaN, Rat(6)}
CapexValues == {None, NaN, Rat(2)}
InterestValues == {None, Rat(-1)}
FcfRows ==
    {None,
     [key |-> "Free Cash Flow", vals |-> <<NaN>>],
     [key |-> "Free Cash Flow", vals |-> <<Rat(2)>>],
     [key |-> "Free Cash Flow", vals |-> <<NaN, Rat(4)>>],
     [key |-> "Free Cash Flow", vals |-> <<Rat(2), Rat(4), Rat(6), Rat(8)>>],
     [key |-> "FreeCashFlow", vals |-> <<Rat(2)>>]}
Cashflows ==
    {None} \cup [ocf : RowValues, capex : CapexValues, interest : InterestValues,
                 fcf : FcfRows]
QuarterlyCashflows ==
    {None} \cup [ocf : RowValues, capex : CapexValues, interest : InterestValues]
Financials == {None} \cup [interest : InterestValues]
TaxRates == {Zero, <<1, 4>>}

FlowInputs ==
    [cashflow : Cashflows, quarterly_cashflow : QuarterlyCashflows,
     financials : Financials, tax_rate : TaxRates]

NoFlowInput == [cashflow |-> None, quarterly_cashflow |-> None,
                financials |-> None, tax_rate |-> Zero]

FlowIdle == [pc |-> "idle", in |-> NoFlowInput, ocf |-> None, capex |-> None,
             interest |-> None, fcff_ttm |-> None, flow_label |-> "",
             method |-> "none"]

\* lines 139-155: the annual cash-flow statement
FlowAnnual ==
    /\ flow.pc = "annual"
    /\ LET cf == flow.in.cashflow
           paid == get_latest_val(cf, "interest")
       IN  flow' = [flow EXCEPT
                !.ocf = get_latest_val(cf, "ocf"),
                !.capex = get_latest_val(cf, "capex"),
                !.interest = IF cf # None /\ paid = None
                             THEN get_latest_val(flow.in.financials, "interest")
                             ELSE paid,
                !.pc = "quarterly"]
    /\ UNCHANGED <<page, valor, mc, pa, rsiCall, fib, cache, session, equiv>>

\* lines 157-172: four times the latest quarter for what is still missing
FlowQuarterly ==
    /\ flow.pc = "quarterly"
    /\ LET qcf == flow.in.quarterly_cashflow
           use == qcf # None /\ (flow.ocf = None \/ flow.capex = None
                                   \/ flow.interest = None)
           Fill(cur, row) ==
               IF use /\ cur = None /\ get_latest_val(qcf, row) # None
               THEN RMul(get_latest_val(qcf, row), Rat(QuartersPerYear))
               ELSE cur
       IN  flow' = [flow EXCEPT
                !.ocf = safe_float(Fill(flow.ocf, "ocf"), None),
                !.capex = safe_float(Fill(flow.capex, "capex"), None),
                !.interest = Fill(flow.interest, "interest"),
                !.pc = "select"]
    /\ UNCHANGED <<page, valor, mc, pa, rsiCall, fib, cache, session, equiv>>

\* lines 174-195: the value and label compute_fcff_ttm returns
FlowReturn ==
    /\ flow.pc = "select"
    /\ LET cf == flow.in.cashflow
           fcfe == IF cf # None /\ cf.fcf # None /\ cf.fcf.key \in FcfKeys
                   THEN safe_float(cf.fcf.vals[1], None)
                   ELSE None
           interest == safe_float(flow.interest, Zero)
           interest_expense == <<Abs(interest[1]), interest[2]>>
           fcff == RSub(RAdd(flow.ocf,
                             RMul(interest_expense, RSub(One, flow.in.tax_rate))),
                        flow.capex)
       IN  flow' =
             IF flow.ocf = None \/ flow.capex = None
             THEN IF fcfe # None
                  THEN [flow EXCEPT !.fcff_ttm = fcfe, !.flow_label = "FCF",
                                    !.method = "reported_fcf", !.pc = "page"]
                  ELSE [flow EXCEPT !.fcff_ttm = None, !.flow_label = "FCF",
                                    !.method = "none", !.pc = "page"]
             ELSE [flow EXCEPT !.fcff_ttm = fcff, !.flow_label = "FCFF",
                               !.method = "fcff", !.pc = "page"]
    /\ UNCHANGED <<page, valor, mc, pa, rsiCall, fib, cache, session, equiv>>

\* lines 270-282: the page's last fallback, the average of the reported row
FlowPageFallback ==
    /\ flow.pc = "page"
    /\ LET cf == flow.in.cashflow
           vals == IF cf # None /\ cf.fcf # None /\ cf.fcf.key = "Free Cash Flow"
                   THEN FirstN(DropNa(cf.fcf.vals), AvgYears)
                   ELSE <<>>
       IN  flow' =
             IF flow.fcff_ttm = None /\ vals # <<>>
             THEN [flow EXCEPT !.fcff_ttm = RDiv(RSum(vals), Rat(Len(vals))),
                               !.flow_label = "FCF (avg)",
                               !.method = "fcf_average", !.pc = "default"]
             ELSE [flow EXCEPT !.pc = "default"]
    /\ UNCHANGED <<page, valor, mc, pa, rsiCall, fib, cache, session, equiv>>

\* line 284, and the label shown at line 288
FlowDefault ==
    /\ flow.pc = "default"
    /\ flow' = IF flow.fcff_ttm = None
               THEN [flow EXCEPT !.fcff_ttm = DefaultCashFlow,
                                 !.method = "default", !.pc = "shown"]
               ELSE [flow EXCEPT !.pc = "shown"]
    /\ UNCHANGED <<page, valor, mc, pa, rsiCall, fib, cache, session, equiv>>

(***************************************************************************)
(* compute_fibonacci_level (utils/utils.py) and the Fibonacci levels of    *)
(* show_indicators (pages/3_Market_Analysis.py).                           *)
(***************************************************************************)
\* closes checked, and the lengths standing for the page's three-year and
\* five-year windows (252*3 and 252*5 bars)
MaxCloseLen == 4
Fib3y == 2
Fib5y == 3

\* series[-n:]: the last n values, the whole series when it is shorter
LastN(series, n) ==
    IF Len(series) <= n THEN series
    ELSE SubSeq(series, Len(series) - n + 1, Len(series))

\* series.min() and series.max()
SeriesMin(series) ==
    CHOOSE x \in {series[k] : k \in 1..Len(series)} :
        \A k \in 1..Len(series) : RLe(x, series[k])
SeriesMax(series) ==
    CHOOSE x \in {series[k] : k \in 1..Len(series)} :
        \A k \in 1..Len(series) : RLe(series[k], x)

compute_fibonacci_level(series) ==
    LET min_price == SeriesMin(series)
        max_price == SeriesMax(series)
        current_price == series[Len(series)]
        ratio == FloatDiv(RSub(current_price, min_price),
                          RSub(max_price, min_price))
    IN  IF ratio = NaN THEN NaN ELSE RMul(ratio, Rat(100))

\* f"{level:.2f}%": a NaN level is written out as nan%
FormatLevel(level) == IF level = NaN THEN "nan%" ELSE "number%"

FibIdle == [pc |-> "idle", close |-> <<>>, level_3y |-> NaN, level_5y |-> NaN,
            level_10y |-> NaN, comment |-> "", shown |-> <<>>]

\* Market Analysis, lines 114-116
FibLevels ==
    /\ fib.pc = "indicators"
    /\ fib' = [fib EXCEPT
            !.level_3y = compute_fibonacci_level(LastN(fib.close, Fib3y)),
            !.level_5y = compute_fibonacci_level(LastN(fib.close, Fib5y)),
            !.level_10y = compute_fibonacci_level(fib.close),
            !.pc = "classify"]
    /\ UNCHANGED <<page, valor, mc, pa, rsiCall, flow, cache, session, equiv>>

\* line 163: a comparison with NaN is false, so a NaN level is commented as
\* a level the price is below
FibComment ==
    /\ fib.pc = "classify"
    /\ LET price == fib.close[Len(fib.close)]
       IN  fib' = [fib EXCEPT
                !.comment = IF fib.level_3y # NaN /\ RLt(fib.level_3y, price)
                            THEN "Above 3Y Fib Level (Breakout)"
                            ELSE "Below 3Y Fib Level (Support)",
                !.pc = "render"]
    /\ UNCHANGED <<page, valor, mc, pa, rsiCall, flow, cache, session, equiv>>

\* lines 208-210: the three levels are written into the page
FibRender ==
    /\ fib.pc = "render"
    /\ fib' = [fib EXCEPT
            !.shown = <<FormatLevel(fib.level_3y), FormatLevel(fib.level_5y),
                        FormatLevel(fib.level_10y)>>,
            !.pc = "shown"]
    /\ UNCHANGED <<page, valor, mc, pa, rsiCall, flow, cache, session, equiv>>

(***************************************************************************)
(* The stock-info caches: get_stock_info of utils.py (one JSON file per    *)
(* ticker) and get_stock_info of utils/utils.py (one CSV for all tickers,  *)
(* memoised by st.cache_data).  Time is counted in hours; a fetched info   *)
(* is identified by the hour it was fetched at.                            *)
(***************************************************************************)
CACHE_DURATION_HOURS == 24

\* the clock advances TickHours at a time, up to MaxClock
TickHours == 12
MaxClock == 36

Tickers == {"AAPL", "MSFT"}

\* utils.py, lines 16-21: f is the ticker's JSON file, None when absent
is_cache_valid(f, now) ==
    IF f = None THEN FALSE ELSE now - f.mtime < CACHE_DURATION_HOURS

\* md5 of the info's JSON text; the row of a ticker the CSV does not hold
\* has no hash
InfoHash(info) == info

CacheIdle == [now |-> 0,
              json |-> [t \in Tickers |-> None],
              csv |-> None,
              memo |-> [t \in Tickers |-> None],
              out |-> None]

\* the clock
CacheTick ==
    /\ cache.now + TickHours <= MaxClock
    /\ cache' = [cache EXCEPT !.now = cache.now + TickHours]
    /\ UNCHANGED <<page, valor, mc, pa, rsiCall, flow, fib, session, equiv>>

\* utils.py, lines 66-73 with fetch_and_cache_stock_info (lines 23-64):
\* ok says whether yfinance answers
LegacyGetStockInfo ==
    /\ \E t \in Tickers, ok \in BOOLEAN :
          LET info == [at |-> cache.now, full |-> TRUE]
          IN  cache' =
                IF is_cache_valid(cache.json[t], cache.now)
                THEN [cache EXCEPT !.out = [fn |-> "utils",
                                            ticker |-> t, served |-> cache.now,
                                            source |-> "cache",
                                            info |-> cache.json[t].info]]
                ELSE IF ok
                THEN [cache EXCEPT
                        !.json[t] = [mtime |-> cache.now, info |-> info],
                        !.out = [fn |-> "utils",
                                 ticker |-> t, served |-> cache.now,
                                 source |-> "fetch", info |-> info]]
                ELSE [cache EXCEPT !.out = [fn |-> "utils",
                                            ticker |-> t, served |-> cache.now,
                                            source |-> "error",
                                            info |-> None]]
    /\ UNCHANGED <<page, valor, mc, pa, rsiCall, flow, fib, session, equiv>>

\* utils/utils.py, lines 36-95: info_full always holds the Ticker key, so it
\* is cached whether or not yfinance answered (full); the CSV is rewritten
\* when the ticker's row is new or its hash changed
fetch_and_cache_stock_info(t, ok, csv, now) ==
    LET info_full == [at |-> now, full |-> ok]
        df_existing == IF csv = None THEN [u \in Tickers |-> None]
                       ELSE csv.rows
        new_hash == InfoHash(info_full)
        existing_hash == IF df_existing[t] # None
                         THEN InfoHash(df_existing[t]) ELSE None
    IN  [info |-> info_full,
         csv |-> IF new_hash # existing_hash
                 THEN [mtime |-> now,
                       rows |-> [df_existing EXCEPT ![t] = info_full]]
                 ELSE csv]

\* utils/utils.py, lines 104-122.  st.cache_data (no ttl) answers a repeated
\* call from its memo; otherwise a row of the CSV is returned whatever the
\* file's age, an unreadable CSV is removed, and only a ticker the CSV lacks
\* is fetched
GetStockInfo ==
    /\ \E t \in Tickers, ok \in BOOLEAN, readable \in BOOLEAN :
          IF cache.memo[t] # None
          THEN cache' = [cache EXCEPT !.out = [fn |-> "utils.utils",
                                               ticker |-> t,
                                               served |-> cache.now,
                                               source |-> "cache",
                                               info |-> cache.memo[t]]]
          ELSE IF cache.csv # None /\ readable /\ cache.csv.rows[t] # None
          THEN cache' = [cache EXCEPT
                    !.memo[t] = cache.csv.rows[t],
                    !.out = [fn |-> "utils.utils",
                             ticker |-> t, served |-> cache.now,
                             source |-> "cache", info |-> cache.csv.rows[t]]]
          ELSE LET kept == IF cache.csv # None /\ ~readable THEN None
                           ELSE cache.csv
                   r == fetch_and_cache_stock_info(t, ok, kept, cache.now)
               IN  cache' = [cache EXCEPT
                        !.csv = r.csv,
                        !.memo[t] = r.info,
                        !.out = [fn |-> "utils.utils",
                                 ticker |-> t, served |-> cache.now,
                                 source |-> "fetch", info |-> r.info]]
    /\ UNCHANGED <<page, valor, mc, pa, rsiCall, flow, fib, session, equiv>>

\* st.cache_data.clear() behind the refresh buttons (home.py line 56,
\* Market Analysis line 58): the memo is emptied, the CSV stays
CacheClear ==
    /\ \E t \in Tickers : cache.memo[t] # None
    /\ cache' = [cache EXCEPT !.memo = [t \in Tickers |-> None]]
    /\ UNCHANGED <<page, valor, mc, pa, rsiCall, flow, fib, session, equiv>>

(***************************************************************************)
(* Session management: the guard at the top of home.py and of the pages    *)
(* Stock Info, Monte Carlo Simulations and Stock Comparison, and login     *)
(* (utils/utils.py).  Time is counted in seconds from the session's first  *)
(* script run, which puts the two keys into st.session_state.              *)
(***************************************************************************)
HOME_SESSION_TIMEOUT_SECONDS == 600
PAGE_SESSION_TIMEOUT_SECONDS == 3600

\* the clock advances TickSeconds at a time, up to MaxSeconds
TickSeconds == 400
MaxSeconds == 4400

GuardedPages == {"Stock Info", "Monte Carlo Simulations", "Stock Comparison"}

SessionIdle == [now |-> 0, authenticated |-> FALSE, last_activity |-> 0,
                page |-> "", view |-> "", idle |-> 0]

\* the lines the guards share: an authenticated session idle for more than
\* the timeout is logged out, otherwise its last_activity is set to now;
\* idle is the time since last_activity that the guard saw
Guard(s, timeout) ==
    IF s.authenticated /\ s.now - s.last_activity > timeout
    THEN [s EXCEPT !.authenticated = FALSE, !.idle = s.now - s.last_activity]
    ELSE IF s.authenticated
    THEN [s EXCEPT !.last_activity = s.now, !.idle = s.now - s.last_activity]
    ELSE [s EXCEPT !.idle = s.now - s.last_activity]

\* the clock
SessionTick ==
    /\ session.now + TickSeconds <= MaxSeconds
    /\ session' = [session EXCEPT !.now = session.now + TickSeconds]
    /\ UNCHANGED <<page, valor, mc, pa, rsiCall, flow, fib, cache, equiv>>

\* home.py, lines 16-146: the content for an authenticated session, the
\* login form otherwise (after the rerun, when the session has expired)
VisitHome ==
    /\ LET s == Guard(session, HOME_SESSION_TIMEOUT_SECONDS)
       IN  session' = [s EXCEPT !.page = "home",
                                !.view = IF s.authenticated THEN "content"
                                         ELSE "login"]
    /\ UNCHANGED <<page, valor, mc, pa, rsiCall, flow, fib, cache, equiv>>

\* utils/utils.py, lines 209-225: the Login button of the form on the home
\* page; good credentials log the session in and the rerun shows the content
Login ==
    /\ session.page = "home"
    /\ session.view = "login"
    /\ \E ok \in BOOLEAN :
          session' = IF ok
                     THEN [session EXCEPT !.authenticated = TRUE,
                                          !.last_activity = session.now,
                                          !.view = "content", !.idle = 0]
                     ELSE [session EXCEPT !.view = "login"]
    /\ UNCHANGED <<page, valor, mc, pa, rsiCall, flow, fib, cache, equiv>>

\* Stock Info lines 15-32, Monte Carlo Simulations lines 9-26, Stock
\* Comparison lines 10-27: the content for an authenticated session, the
\* Unauthorized message and st.stop() otherwise
VisitPage ==
    /\ \E p \in GuardedPages :
          LET s == Guard(session, PAGE_SESSION_TIMEOUT_SECONDS)
          IN  session' = [s EXCEPT !.page = p,
                                   !.view = IF s.authenticated THEN "content"
                                            ELSE "unauthorized"]
    /\ UNCHANGED <<page, valor, mc, pa, rsiCall, flow, fib, cache, equiv>>

(***************************************************************************)
(* The two DCF implementations side by side: the enterprise and equity     *)
(* value inside calculate_dcf_valor (utils/utils.py, lines 574-600) and    *)
(* the ones of run_scenario on the DCF page (lines 303-344), for the same  *)
(* starting free cash flow grown at one rate every year.                   *)
(***************************************************************************)
EquivIdle == [pc |-> "idle", in |-> NoValorInput, valor_ev |-> None,
              valor_equity |-> None, page |-> None]

\* utils/utils.py, lines 570-598: the base scenario's enterprise value
\* discount_cash_flows(project_fcf(g)) and the valuation after net debt
EquivValor ==
    /\ equiv.pc = "start"
    /\ LET in == equiv.in
           g == in.revenue_growth_base
           missing == [status |-> "Error",
                       msg |-> "Missing required financial data."]
       IN  equiv' =
             IF Falsy(in.revenue) \/ Falsy(in.free_cf)
                \/ Falsy(in.shares_outstanding)
             THEN [equiv EXCEPT !.valor_ev = missing,
                                !.valor_equity = missing, !.pc = "valor"]
             ELSE [equiv EXCEPT
                     !.valor_ev = discount_cash_flows(in, project_fcf(in, g)),
                     !.valor_equity = Valuation(in, g),
                     !.pc = "valor"]
    /\ UNCHANGED <<page, valor, mc, pa, rsiCall, flow, fib, cache, session>>

\* DCF page, lines 303-344: the cash flows compounded from the starting cash
\* flow (fcf_list[-1] of an empty list raises IndexError), the Gordon
\* method, and net cash = cash - total debt
EquivPage ==
    /\ equiv.pc = "valor"
    /\ LET in == equiv.in
           rates == [k \in 1..in.years |-> in.revenue_growth_base]
           net_cash == RSub(InfoGet(in.cash, Zero), InfoGet(in.total_debt, Zero))
           shares == IF in.shares_outstanding = None THEN 0
                     ELSE in.shares_outstanding[1]
       IN  equiv' =
             IF in.free_cf = None
             THEN [equiv EXCEPT !.page = [status |-> "no starting cash flow"],
                                !.pc = "done"]
             ELSE IF in.years = 0
             THEN [equiv EXCEPT !.page = [status |-> "IndexError"],
                                !.pc = "done"]
             ELSE [equiv EXCEPT
                     !.page = run_scenario(
                                 [fcf_list |-> BuildFcfList(in.free_cf, rates),
                                  terminal_growth |-> in.terminal_growth_rate,
                                  exit_multiple |-> None,
                                  method |-> "Gordon Growth",
                                  net_cash |-> net_cash, shares |-> shares],
                                 in.discount_rate),
                     !.pc = "done"]
    /\ UNCHANGED <<page, valor, mc, pa, rsiCall, flow, fib, cache, session>>

(***************************************************************************)
(* Specifications: one per component, the others idle.                     *)
(***************************************************************************)
PageInit ==
    /\ page = PageStart
    /\ valor = ValorIdle
    /\ mc = McIdle
    /\ pa = PaIdle
    /\ rsiCall = RsiIdle
    /\ flow = FlowIdle
    /\ fib = FibIdle
    /\ cache = CacheIdle
    /\ session = SessionIdle
    /\ equiv = EquivIdle

PageNext ==
    \/ PageReadInputs
    \/ PageRunScenario
    \/ PageRenderTable
    \/ PageRerun

SpecPage == PageInit /\ [][PageNext]_vars

ValorInit ==
    /\ page = PageIdle
    /\ mc = McIdle
    /\ pa = PaIdle
    /\ rsiCall = RsiIdle
    /\ flow = FlowIdle
    /\ fib = FibIdle
    /\ cache = CacheIdle
    /\ session = SessionIdle
    /\ equiv = EquivIdle
    /\ valor \in {[pc |-> "call", in |-> i, out |-> None] : i \in ValorInputs}

ValorNext == ValorCall

SpecValor == ValorInit /\ [][ValorNext]_vars

McInit ==
    /\ page = PageIdle
    /\ valor = ValorIdle
    /\ mc \in {[McIdle EXCEPT !.pc = "call", !.in = i] : i \in McInputs}
    /\ pa = PaIdle
    /\ rsiCall = RsiIdle
    /\ flow = FlowIdle
    /\ fib = FibIdle
    /\ cache = CacheIdle
    /\ session = SessionIdle
    /\ equiv = EquivIdle

McNext ==
    \/ McSetup
    \/ McStartPath
    \/ McDay
    \/ McStoreRow
    \/ McReturn
    \/ McFinalPrices

SpecMC == McInit /\ [][McNext]_vars

PaInit ==
    /\ page = PageIdle
    /\ valor = ValorIdle
    /\ mc = McIdle
    /\ pa \in {[PaIdle EXCEPT !.pc = "call", !.orig = f, !.df = f, !.lib = l] :
                f \in Frames, l \in Libs}
    /\ rsiCall = RsiIdle
    /\ flow = FlowIdle
    /\ fib = FibIdle
    /\ cache = CacheIdle
    /\ session = SessionIdle
    /\ equiv = EquivIdle

PaNext ==
    \/ PaCheckColumns
    \/ PaAddIndicators
    \/ PaDropna
    \/ PaScore
    \/ PaCallAgain
    \/ PaSignal

SpecPA == PaInit /\ [][PaNext]_vars

RsiInit ==
    /\ page = PageIdle
    /\ valor = ValorIdle
    /\ mc = McIdle
    /\ pa = PaIdle
    /\ rsiCall \in {[RsiIdle EXCEPT !.pc = "call", !.series = q] :
                 q \in SeqsUpTo(PriceValues, MaxSeriesLen)}
    /\ flow = FlowIdle
    /\ fib = FibIdle
    /\ cache = CacheIdle
    /\ session = SessionIdle
    /\ equiv = EquivIdle

RsiNext == RsiCompute

SpecRSI == RsiInit /\ [][RsiNext]_vars

FlowInit ==
    /\ page = PageIdle
    /\ valor = ValorIdle
    /\ mc = McIdle
    /\ pa = PaIdle
    /\ rsiCall = RsiIdle
    /\ flow \in {[FlowIdle EXCEPT !.pc = "annual", !.in = i] : i \in FlowInputs}
    /\ fib = FibIdle
    /\ cache = CacheIdle
    /\ session = SessionIdle
    /\ equiv = EquivIdle

FlowNext ==
    \/ FlowAnnual
    \/ FlowQuarterly
    \/ FlowReturn
    \/ FlowPageFallback
    \/ FlowDefault

SpecFlow == FlowInit /\ [][FlowNext]_vars

FibInit ==
    /\ page = PageIdle
    /\ valor = ValorIdle
    /\ mc = McIdle
    /\ pa = PaIdle
    /\ rsiCall = RsiIdle
    /\ flow = FlowIdle
    /\ fib \in {[FibIdle EXCEPT !.pc = "indicators", !.close = q] :
                 q \in SeqsUpTo(PriceValues, MaxCloseLen) \ {<<>>}}
    /\ cache = CacheIdle
    /\ session = SessionIdle
    /\ equiv = EquivIdle

FibNext ==
    \/ FibLevels
    \/ FibComment
    \/ FibRender

SpecFib == FibInit /\ [][FibNext]_vars

CacheInit ==
    /\ page = PageIdle
    /\ valor = ValorIdle
    /\ mc = McIdle
    /\ pa = PaIdle
    /\ rsiCall = RsiIdle
    /\ flow = FlowIdle
    /\ fib = FibIdle
    /\ cache = CacheIdle
    /\ session = SessionIdle
    /\ equiv = EquivIdle

CacheNext ==
    \/ CacheTick
    \/ LegacyGetStockInfo
    \/ GetStockInfo
    \/ CacheClear

SpecCache == CacheInit /\ [][CacheNext]_vars

SessionInit ==
    /\ page = PageIdle
    /\ valor = ValorIdle
    /\ mc = McIdle
    /\ pa = PaIdle
    /\ rsiCall = RsiIdle
    /\ flow = FlowIdle
    /\ fib = FibIdle
    /\ cache = CacheIdle
    /\ session = SessionIdle
    /\ equiv = EquivIdle

SessionNext ==
    \/ SessionTick
    \/ VisitHome
    \/ Login
    \/ VisitPage

SpecSession == SessionInit /\ [][SessionNext]_vars

EquivInit ==
    /\ page = PageIdle
    /\ valor = ValorIdle
    /\ mc = McIdle
    /\ pa = PaIdle
    /\ rsiCall = RsiIdle
    /\ flow = FlowIdle
    /\ fib = FibIdle
    /\ cache = CacheIdle
    /\ session = SessionIdle
    /\ equiv \in {[EquivIdle EXCEPT !.pc = "start", !.in = i] : i \in ValorInputs}

EquivNext ==
    \/ EquivValor
    \/ EquivPage

SpecEquiv == EquivInit /\ [][EquivNext]_vars

(***************************************************************************)
(* The DCF calculator: properties.                                         *)
(***************************************************************************)
\* scenario k of ScenarioOrder has been run in this script run
PageRan(k) ==
    \/ k <= Len(page.results)
    \/ page.pc = "crashed" /\ k = Len(page.results) + 1

\* what run_scenario did for scenario k: its tuple, or the exception
PageOutcome(k) == IF k <= Len(page.results) THEN page.results[k] ELSE page.err

PageGordon == page.in.method = "Gordon Growth"

\* the terminal growth rate g used by the Gordon method
PageG == OrDefault(page.in.terminal_growth, Zero)

\* C1: with the Gordon-growth method, dcf_from_fcf_list returns no enterprise
\* value for an input whose terminal growth rate g is >= the discount rate r:
\* every such call is rejected. (Any exception is counted as a rejection
\* here, the ZeroDivisionError at g = r included.)
C1_GordonRejectsGrowthNotBelowRate ==
    \A k \in 1..Len(ScenarioOrder) :
        (PageRan(k) /\ PageGordon /\ RLe(page.in.scenarios[k], PageG))
            => PageOutcome(k).status # "ok"

\* scenario k's own inputs are valid: exit multiple, or g below its rate
ScenarioValid(k) == ~PageGordon \/ RLt(PageG, page.in.scenarios[k])

\* C2: when a script run has ended, every scenario whose own inputs are valid
\* has its enterprise, equity and per-share values, whatever happened to the
\* other scenarios.
C2_ScenarioFailureIsolated ==
    page.pc \in {"done", "crashed"} =>
        \A k \in 1..Len(ScenarioOrder) :
            ScenarioValid(k) =>
                k <= Len(page.results) /\ page.results[k].status = "ok"

ValorOk == valor.pc = "returned" /\ valor.out.status = "ok"

\* growth rates ordered bull >= base >= bear
GrowthOrdered ==
    /\ RLe(valor.in.revenue_growth_bear, valor.in.revenue_growth_base)
    /\ RLe(valor.in.revenue_growth_base, valor.in.revenue_growth_bull)

\* C3 as stated: for ordered growth rates and the one shared discount rate,
\* every successful result has Bull >= Base >= Bear per share, for all
\* accepted fundamentals, a negative free cash flow included.
C3_BullBaseBearOrdered ==
    (ValorOk /\ GrowthOrdered) =>
        /\ RLe(valor.out.Bear, valor.out.Base)
        /\ RLe(valor.out.Base, valor.out.Bull)

\* C3 amended: for ordered growth rates, a successful result has
\* Bull >= Base >= Bear per share when the free cash flow is positive, and
\* Bull <= Base <= Bear when it is negative.
C3_OrderedBySignOfFcf ==
    (ValorOk /\ GrowthOrdered) =>
        /\ RLt(Zero, valor.in.free_cf) =>
              /\ RLe(valor.out.Bear, valor.out.Base)
              /\ RLe(valor.out.Base, valor.out.Bull)
        /\ RLt(valor.in.free_cf, Zero) =>
              /\ RLe(valor.out.Bull, valor.out.Base)
              /\ RLe(valor.out.Base, valor.out.Bear)

\* a successful valuation with strictly ordered growth rates, a positive free
\* cash flow and strictly ordered per-share values
C3_Witness ==
    /\ ValorOk
    /\ RLt(valor.in.revenue_growth_bear, valor.in.revenue_growth_base)
    /\ RLt(valor.in.revenue_growth_base, valor.in.revenue_growth_bull)
    /\ RLt(Zero, valor.in.free_cf)
    /\ RLt(valor.out.Bear, valor.out.Base)
    /\ RLt(valor.out.Base, valor.out.Bull)

\* C13: in every scenario that was valued, the equity value is the
\* enterprise value plus net cash, and the per-share value is None when the
\* shares outstanding are zero and the equity value divided by the shares
\* outstanding otherwise.
C13_EquityBridgeAndPerShare ==
    \A k \in 1..Len(page.results) :
        LET r == page.results[k]
        IN  /\ r.ev = r.res.ev
            /\ r.equity = RAdd(r.ev, page.in.net_cash)
            /\ r.per_share = IF page.in.shares = 0 THEN None
                              ELSE RDiv(r.equity, Rat(page.in.shares))

\* a finished run with zero shares outstanding: three equity values, each
\* different from its enterprise value, and no per-share value
C13_Witness ==
    /\ page.pc = "done"
    /\ page.in.shares = 0
    /\ \A k \in 1..Len(ScenarioOrder) :
          /\ page.results[k].per_share = None
          /\ page.results[k].equity # page.results[k].ev

\* C14: in every scenario that was valued at rate r over N cash flows, the
\* i-th present value is cf_i / (1 + r)^i, the terminal value is discounted
\* N years, and the enterprise value is the sum of the N present values plus
\* the discounted terminal value.
C14_EnterpriseValueIsSumOfPresentValues ==
    \A k \in 1..Len(page.results) :
        LET res == page.results[k].res
            growth == RAdd(One, page.in.scenarios[k])
            N == Len(page.in.fcf_list)
        IN  /\ Len(res.pv_years) = N
            /\ \A i \in 1..N :
                  RMul(res.pv_years[i], RPow(growth, i)) = page.in.fcf_list[i]
            /\ RMul(res.pv_terminal, RPow(growth, N)) = res.terminal
            /\ res.ev = RAdd(RSum(res.pv_years), res.pv_terminal)

\* a finished run whose Bull rate is positive: the last cash flow counts for
\* less than its face value and the enterprise value is below the plain sum
C14_Witness ==
    /\ page.pc = "done"
    /\ RLt(Zero, page.in.scenarios[1])
    /\ LET res == page.results[1].res
           N == Len(page.in.fcf_list)
       IN  /\ N >= 2
           /\ RLt(res.pv_years[N], page.in.fcf_list[N])
           /\ RLt(res.ev, RAdd(RSum(page.in.fcf_list), res.terminal))

\* the fundamentals with every absent total-debt or cash field set to 0
AbsentAsZero(in) ==
    [in EXCEPT !.total_debt = IF @ = None THEN Zero ELSE @,
               !.cash = IF @ = None THEN Zero ELSE @]

\* C11: when total debt or cash is absent from the fundamentals, the result
\* of calculate_dcf_valor is not the valuation it produces with the absent
\* field set to 0 (the absence is reported, not silently valued as zero).
C11_AbsentDebtOrCashNotValuedAsZero ==
    (/\ valor.pc = "returned"
     /\ valor.in.total_debt = None \/ valor.in.cash = None
     /\ calculate_dcf_valor(AbsentAsZero(valor.in)).status = "ok") =>
        valor.out # calculate_dcf_valor(AbsentAsZero(valor.in))

\* C12: the label shown with the starting cash flow identifies the method
\* that produced the figure: "FCFF" only for the figure computed from
\* operating cash flow and capex, the levered label "FCF" only for a reported
\* free-cash-flow row, and another label for every other fallback, the
\* default figure included.
C12_LabelIdentifiesMethod ==
    flow.pc = "shown" =>
        /\ flow.flow_label = "FCFF" => flow.method = "fcff"
        /\ flow.flow_label = "FCF" => flow.method = "reported_fcf"
        /\ flow.method \notin {"fcff", "reported_fcf"} =>
              flow.flow_label \notin {"FCFF", "FCF"}

\* C24: every call of calculate_dcf_valor returns, either the four values
\* Base, Bull, Bear and Current Price or the single value Error; it returns
\* Error whenever revenue, free cash flow or shares outstanding is absent or
\* zero, and whenever the terminal growth rate is >= the discount rate.
C24_ValorReturnsResultOrError ==
    /\ valor.pc \in {"idle", "call", "returned"}
    /\ valor.pc = "returned" =>
          /\ \/ /\ valor.out.status = "ok"
                /\ DOMAIN valor.out
                     = {"status", "Base", "Bull", "Bear", "CurrentPrice"}
             \/ /\ valor.out.status = "Error"
                /\ DOMAIN valor.out = {"status", "msg"}
          /\ (\E f \in {valor.in.revenue, valor.in.free_cf,
                         valor.in.shares_outstanding} : f = None \/ IsZero(f))
                => valor.out.status = "Error"
          /\ RLe(valor.in.discount_rate, valor.in.terminal_growth_rate)
                => valor.out.status = "Error"

\* a call with all fundamentals present and the terminal growth rate equal
\* to the discount rate: the Error result
C24_Witness ==
    /\ valor.pc = "returned"
    /\ ~Falsy(valor.in.revenue) /\ ~Falsy(valor.in.free_cf)
    /\ ~Falsy(valor.in.shares_outstanding)
    /\ valor.in.terminal_growth_rate = valor.in.discount_rate
    /\ valor.out.status = "Error"

(***************************************************************************)
(* The Monte Carlo simulator: properties.                                  *)
(***************************************************************************)
\* C4: monte_carlo_simulation treats n_simulations = 0 as an input error: a
\* call with n_simulations = 0 does not return a matrix.
C4_ZeroSimulationsRejected ==
    mc.in.n_simulations = 0 => mc.pc # "returned"

\* C5: once vol is set, it is the supplied volatility whenever one is
\* supplied (0 included), and the deviation of the historical daily returns
\* when none is supplied.
C5_VolIsOverrideWhenSupplied ==
    mc.pc \in {"outer", "inner", "returned"} =>
        mc.vol = IF mc.in.volatility # None THEN mc.in.volatility
                 ELSE Std(PctChange(mc.in.close))

\* the rows stored so far, and every row once the call has returned
McStoredRows == 1..(IF mc.pc = "returned" THEN Len(mc.simulations) ELSE mc.i)

\* nxt is one day after prev: prev * (1 + mean_return + shock) in normal
\* mode, prev * exp(mean_return + shock) in log-normal mode, for a shock that
\* is sigma times a standard draw
OneDayAfter(prev, nxt, mean_return, sigma) ==
    \E z \in StandardDraws :
        LET step == RAdd(mean_return, RMul(sigma, z))
        IN  IF mc.in.log_normal
            THEN nxt = [base |-> prev.base, expo |-> RAdd(prev.expo, step)]
            ELSE nxt = [base |-> RMul(prev.base, RAdd(One, step)),
                        expo |-> prev.expo]

\* C15: the matrix returned has n_simulations rows of n_days columns, and
\* the first column of every row is the first simulated day, one day after
\* the last historical close, which itself is not stored.
C15_ShapeAndFirstColumn ==
    mc.pc = "returned" =>
        /\ Len(mc.simulations) = mc.in.n_simulations
        /\ \A r \in 1..Len(mc.simulations) :
              /\ Len(mc.simulations[r]) = mc.in.n_days
              /\ mc.in.n_days >= 1 =>
                    OneDayAfter(McLastPrice, mc.simulations[r][1],
                                mc.mean_return, mc.vol)

\* a returned matrix of two rows and two columns whose first column differs
\* from the seed price in both rows
C15_Witness ==
    /\ mc.pc = "returned"
    /\ mc.in.n_simulations = 2 /\ mc.in.n_days = 2
    /\ \A r \in 1..2 : mc.simulations[r][1] # McLastPrice

\* C16: a call with a horizon of 0 days and n_simulations > 0 raises no
\* error and is never stuck before it has returned (it is at a step that can
\* be taken, no day is simulated and each path is stored at once), and every
\* row of the matrix it returns has length 0.
C16_ZeroHorizonReturnsEmptyPaths ==
    (mc.in.n_days = 0 /\ mc.in.n_simulations > 0) =>
        /\ mc.pc \in {"call", "outer", "inner", "returned"}
        /\ mc.pc = "inner" => mc.prices = <<McLastPrice>>
        /\ mc.i <= mc.in.n_simulations /\ mc.rng = 0
        /\ mc.pc = "returned" =>
              /\ Len(mc.simulations) = mc.in.n_simulations
              /\ \A r \in 1..Len(mc.simulations) : Len(mc.simulations[r]) = 0

\* a returned call with a horizon of 0 days and two empty paths
C16_Witness ==
    /\ mc.pc = "returned"
    /\ mc.in.n_days = 0 /\ mc.in.n_simulations = 2
    /\ mc.simulations = <<(<<>>), (<<>>)>>

\* a price base * exp(expo) is positive exactly when its base is
PricePositive(p) == RLt(Zero, p.base)

\* C29: in log-normal mode with a positive last close, every price of every
\* path, stored or under construction, is strictly positive.
C29_LogNormalPricesPositive ==
    (/\ mc.pc \in {"outer", "inner", "returned"}
     /\ mc.in.log_normal
     /\ RLt(Zero, mc.in.close[Len(mc.in.close)])) =>
        /\ \A r \in McStoredRows :
              \A c \in 1..Len(mc.simulations[r]) :
                 PricePositive(mc.simulations[r][c])
        /\ \A k \in 1..Len(mc.prices) : PricePositive(mc.prices[k])

\* a returned log-normal matrix with a path whose shocks were all downwards
\* at the largest volatility
C29_Witness ==
    /\ mc.pc = "returned"
    /\ mc.in.log_normal
    /\ mc.in.volatility = One
    /\ mc.in.n_simulations > 0 /\ mc.in.n_days = MaxDays
    /\ \A c \in 1..MaxDays : mc.in.stream[c] = Rat(-2)
    /\ RLt(mc.simulations[1][MaxDays].expo, Rat(-2))

\* C27: for every horizon the page's sliders give, the statistics of the
\* final prices are computed: the page does not fail on simulations[:, -1].
C27_FinalPricesForEveryHorizon ==
    (mc.in.n_days \in Horizons /\ mc.stats # "none") =>
        /\ mc.stats = "computed"
        /\ Len(mc.final_prices) = mc.in.n_simulations

\* the same for the horizons of at least one day
FinalPricesForPositiveHorizon ==
    (mc.in.n_days > 0 /\ mc.stats # "none") =>
        /\ mc.stats = "computed"
        /\ Len(mc.final_prices) = mc.in.n_simulations

\* C17: once set, mean_return and sigma are the ones estimated before the
\* first path, and in every path, stored or under construction, the first
\* price is one day after the last historical close and every later price
\* is one day after the price before it in the same path.
C17_PathsCompoundFromSeed ==
    mc.pc \in {"outer", "inner", "returned"} =>
        /\ mc.mean_return = Mean(PctChange(mc.in.close))
        /\ mc.vol = ChooseVol(mc.in.volatility, PctChange(mc.in.close))
        /\ \A r \in McStoredRows :
              \A j \in 1..Len(mc.simulations[r]) :
                  OneDayAfter(IF j = 1 THEN McLastPrice
                              ELSE mc.simulations[r][j - 1],
                              mc.simulations[r][j], mc.mean_return, mc.vol)
        /\ mc.pc = "inner" =>
              /\ mc.prices[1] = McLastPrice
              /\ \A j \in 2..Len(mc.prices) :
                    OneDayAfter(mc.prices[j - 1], mc.prices[j],
                                mc.mean_return, mc.vol)

\* two returned paths of two days each that differ from each other, in
\* log-normal mode
C17_Witness ==
    /\ mc.pc = "returned"
    /\ mc.in.log_normal
    /\ mc.in.n_simulations = 2 /\ mc.in.n_days = 2
    /\ mc.simulations[1] # mc.simulations[2]
    /\ mc.simulations[1][2] # mc.simulations[1][1]

\* the body of the per-path loop run for n days, its first draw being the
\* draw at position pos of the generator's stream
RECURSIVE PathFrom(_, _, _)
PathFrom(prev, pos, n) ==
    IF n = 0 THEN <<>>
    ELSE LET nxt == NextPrice(prev, mc.mean_return,
                              RMul(mc.vol, mc.in.stream[pos]), mc.in.log_normal)
         IN  <<nxt>> \o PathFrom(nxt, pos + 1, n - 1)

\* the orders in which the paths can be run
PathOrders ==
    LET n == Len(mc.simulations)
    IN  {f \in [1..n -> 1..n] : \A a, b \in 1..n : f[a] = f[b] => a = b}

\* the matrix the per-path loops give when run one after another in order:
\* the path run in place p takes the p-th block of n_days draws
MatrixInOrder(order) ==
    [r \in 1..Len(mc.simulations) |->
        LET p == CHOOSE q \in 1..Len(mc.simulations) : order[q] = r
        IN  PathFrom(McLastPrice, (p - 1) * mc.in.n_days + 1, mc.in.n_days)]

\* C18: running the per-path loops in any order gives the matrix the
\* sequential run returns.
C18_PathOrderIrrelevant ==
    mc.pc = "returned" =>
        \A order \in PathOrders : MatrixInOrder(order) = mc.simulations

(***************************************************************************)
(* The price-action scorer and compute_rsi: properties.                    *)
(***************************************************************************)
PaScored == pa.pc \in {"returned", "shown"}
PaEnded == pa.pc \in {"raised", "returned", "shown"}

\* C6 as stated: every score analyze_price_action returns lies in -3..8.
C6_ScoreWithinMinus3To8 == PaScored => pa.score \in (-3)..8

\* C6 amended: every score analyze_price_action returns lies in -3..9.
C6_ScoreWithinMinus3To9 == PaScored => pa.score \in (-3)..9

\* a returned score of 9: every rule at its best
C6_Witness == PaScored /\ pa.score = 9

\* every score the rules give to some snapshot of indicator values
AttainedScores ==
    {SumPts(Rules([price |-> Price, rsi |-> rsi,
                   tenkan |-> tk[1], kijun |-> tk[2],
                   span_a |-> span_a, span_b |-> span_b,
                   recent_volume |-> vol[1], avg_volume |-> vol[2],
                   bb_low |-> bb[1], bb_high |-> bb[2],
                   prev_macd |-> prev[1], prev_signal |-> prev[2],
                   recent_macd |-> recent[1], recent_signal |-> recent[2]])) :
        rsi \in RsiValues, span_a \in Levels, span_b \in Levels,
        tk \in ComparedPairs, vol \in ComparedPairs, bb \in BandPairs,
        prev \in ComparedPairs, recent \in ComparedPairs}

\* C26: a returned score is at most the max_score the page displays it
\* against and at least -3, and some snapshot scores max_score and some
\* snapshot scores -3.
C26_ScoreWithinDisplayedRange ==
    /\ PaScored => (-3 <= pa.score /\ pa.score <= max_score)
    /\ max_score \in AttainedScores
    /\ -3 \in AttainedScores

\* the page showing the lowest score
C26_Witness == pa.pc = "shown" /\ pa.score = -3 /\ pa.signal = "SELL"

\* C7: the signal shown is BUY exactly when score >= 7, HOLD exactly when
\* 4 <= score < 7, SELL exactly when score < 4, and is one of the three.
C7_SignalThresholds ==
    pa.pc = "shown" =>
        /\ pa.signal \in {"BUY", "HOLD", "SELL"}
        /\ pa.signal = "BUY" <=> pa.score >= 7
        /\ pa.signal = "HOLD" <=> (4 <= pa.score /\ pa.score < 7)
        /\ pa.signal = "SELL" <=> pa.score < 4

\* the signal shown for a score at the BUY threshold
C7_Witness == pa.pc = "shown" /\ pa.score = 7 /\ pa.signal = "BUY"

\* the rule table: for each of the six rules, in order, each explanation it
\* can give with the contribution that explanation stands for
RuleTable ==
    <<{<<"RSI is strong and bullish.", 2>>,
       <<"RSI indicates overbought conditions.", 0>>,
       <<"RSI is bearish or neutral.", 0>>},
      {<<"Price is above the cloud (bullish).", 2>>,
       <<"Price is below the cloud (bearish).", 0>>,
       <<"Price is within the cloud (neutral).", 0>>},
      {<<"Bullish crossover of Tenkan-sen over Kijun-sen.", 1>>,
       <<"No bullish crossover on Ichimoku.", 0>>},
      {<<"Volume is higher than average (strong interest).", 1>>,
       <<"Volume is below average.", 0>>},
      {<<"Price is above upper Bollinger Band (potentially overbought).", -1>>,
       <<"Price is below lower Bollinger Band (potentially oversold).", 1>>,
       <<"Price is within Bollinger Bands (neutral).", 0>>},
      {<<"MACD bullish crossover.", 2>>,
       <<"MACD bearish crossover.", -2>>,
       <<"MACD is neutral.", 0>>}>>

\* the contribution the k-th explanation stands for
ExplainedPts(k) ==
    (CHOOSE e \in RuleTable[k] : e[1] = pa.explanations[k])[2]

\* C19: every score returned comes with exactly six explanations, the k-th
\* one given by the k-th rule of the table, and is the sum of the six
\* contributions they stand for.
C19_SixRulesSummed ==
    PaScored =>
        /\ Len(pa.explanations) = Len(RuleTable)
        /\ \A k \in 1..Len(RuleTable) :
              \E e \in RuleTable[k] : e[1] = pa.explanations[k]
        /\ pa.score = ExplainedPts(1) + ExplainedPts(2) + ExplainedPts(3)
                       + ExplainedPts(4) + ExplainedPts(5) + ExplainedPts(6)

\* a score returned for an overbought RSI and a price above the upper band,
\* with the rules after them still evaluated: a bearish MACD crossover
C19_Witness ==
    /\ PaScored
    /\ pa.snap.rsi >= 70
    /\ pa.snap.price > pa.snap.bb_high
    /\ pa.explanations[6] = "MACD bearish crossover."
    /\ pa.score = 1

\* what the MACD rule added to the score: the score less the other five
\* rules' points
MacdContribution == pa.score - SumPts(SubSeq(Rules(pa.snap), 1, 5))

\* C20: the MACD rule adds +2 exactly when the prior bar has MACD < signal
\* and the current bar MACD > signal, -2 exactly when the prior bar has
\* MACD > signal and the current bar MACD < signal, and 0 otherwise.
C20_MacdContribution ==
    PaScored =>
        LET up == pa.snap.prev_macd < pa.snap.prev_signal
                  /\ pa.snap.recent_macd > pa.snap.recent_signal
            down == pa.snap.prev_macd > pa.snap.prev_signal
                    /\ pa.snap.recent_macd < pa.snap.recent_signal
        IN  /\ MacdContribution \in {-2, 0, 2}
            /\ MacdContribution = 2 <=> up
            /\ MacdContribution = -2 <=> down

\* a score returned where MACD was below its signal and now equals it: the
\* rule adds nothing
C20_Witness ==
    /\ PaScored
    /\ pa.snap.prev_macd < pa.snap.prev_signal
    /\ pa.snap.recent_macd = pa.snap.recent_signal
    /\ MacdContribution = 0

\* what the RSI rule added to the score: the score less the other five
\* rules' points
RsiContribution == pa.score - SumPts(SubSeq(Rules(pa.snap), 2, 6))

\* C21: the RSI rule adds +2 exactly when 50 < RSI < 70; for RSI >= 70 it
\* adds 0 and gives the overbought explanation, for RSI <= 50 it adds 0 and
\* gives the bearish/neutral explanation.
C21_RsiContribution ==
    PaScored =>
        /\ RsiContribution = 2 <=> (50 < pa.snap.rsi /\ pa.snap.rsi < 70)
        /\ (50 < pa.snap.rsi /\ pa.snap.rsi < 70) =>
              pa.explanations[1] = "RSI is strong and bullish."
        /\ pa.snap.rsi >= 70 =>
              /\ RsiContribution = 0
              /\ pa.explanations[1] = "RSI indicates overbought conditions."
        /\ pa.snap.rsi <= 50 =>
              /\ RsiContribution = 0
              /\ pa.explanations[1] = "RSI is bearish or neutral."

\* a score returned for an RSI of exactly 70: overbought, nothing added
C21_Witness ==
    /\ PaScored
    /\ pa.snap.rsi = 70
    /\ RsiContribution = 0
    /\ pa.explanations[1] = "RSI indicates overbought conditions."

FibWindow(n) == LastN(fib.close, n)

\* a level over a window whose max exceeds its min is
\* (last - min) / (max - min) * 100 and lies in [0, 100]
FibLevelRight(level, w) ==
    RLt(SeriesMin(w), SeriesMax(w)) =>
        /\ level # NaN
        /\ RMul(level, RSub(SeriesMax(w), SeriesMin(w)))
             = RMul(Rat(100), RSub(w[Len(w)], SeriesMin(w)))
        /\ RLe(Zero, level) /\ RLe(level, Rat(100))

\* C23: each level of a window whose max exceeds its min is
\* (last - min) / (max - min) * 100 within [0, 100]; the level of a window
\* whose max equals its min is NaN, and the page does not comment on it as
\* on a valid level.
C23_FibonacciLevelOrSignal ==
    fib.pc \in {"render", "shown"} =>
        /\ FibLevelRight(fib.level_3y, FibWindow(Fib3y))
        /\ FibLevelRight(fib.level_5y, FibWindow(Fib5y))
        /\ FibLevelRight(fib.level_10y, fib.close)
        /\ SeriesMin(FibWindow(Fib3y)) = SeriesMax(FibWindow(Fib3y)) =>
              /\ fib.level_3y = NaN
              /\ fib.comment \notin {"Above 3Y Fib Level (Breakout)",
                                     "Below 3Y Fib Level (Support)"}

\* C8: a call on a series with fewer than max(window sizes) + 1 = 53 bars
\* ends with the insufficient-data error and never with a score.
C8_ShortSeriesInsufficientData ==
    (PaEnded /\ RequiredCols \subseteq pa.orig.columns
             /\ pa.orig.bars < Window3 + 1) =>
        pa.pc = "raised" /\ pa.err = "Not enough data to compute indicators"

\* C9: after the call the caller's frame has the columns and rows it had
\* before.
C9_FrameUnchanged == PaEnded => pa.df = pa.orig

\* C10: for a series that fills the window, compute_rsi returns a number in
\* [0, 100], and exactly 100 whenever the average loss over the window is 0.
C10_RsiDefinedAndBounded ==
    (rsiCall.pc = "returned" /\ Len(rsiCall.series) >= RsiPeriod) =>
        /\ rsiCall.out \notin {NaN, Inf}
        /\ RLe(Zero, rsiCall.out) /\ RLe(rsiCall.out, Rat(100))
        /\ IsZero(rsiCall.avg_loss) => rsiCall.out = Rat(100)

(***************************************************************************)
(* The stock-info caches: properties.                                      *)
(***************************************************************************)
\* the age in hours, when it was returned, of the info the last call returned
ServedAge == cache.out.served - cache.out.info.at

\* C25: an info that get_stock_info returns from the cache was fetched less
\* than CACHE_DURATION_HOURS ago.
C25_CachedInfoNotStale ==
    (cache.out # None /\ cache.out.source = "cache") =>
        ServedAge < CACHE_DURATION_HOURS

\* the same, for get_stock_info of utils.py alone
LegacyCachedInfoNotStale ==
    (cache.out # None /\ cache.out.source = "cache"
                      /\ cache.out.fn = "utils") =>
        ServedAge < CACHE_DURATION_HOURS

(***************************************************************************)
(* Session management: properties.                                         *)
(***************************************************************************)
\* C28: a visit shows a page's content to a session only if the session was
\* active at most HOME_SESSION_TIMEOUT_SECONDS before the visit, whichever
\* guarded page is visited.
C28_IdleSessionStaysExpired ==
    session.view = "content" => session.idle <= HOME_SESSION_TIMEOUT_SECONDS

\* the same with the limit the three pages apply
IdleBeyondPageLimitExpires ==
    session.view = "content" => session.idle <= PAGE_SESSION_TIMEOUT_SECONDS

(***************************************************************************)
(* The two DCF implementations: properties.                                *)
(***************************************************************************)
\* the figures calculate_dcf_valor requires are present and the terminal
\* growth is below the discount rate
EquivComparable ==
    /\ equiv.pc = "done"
    /\ ~Falsy(equiv.in.revenue)
    /\ ~Falsy(equiv.in.free_cf)
    /\ ~Falsy(equiv.in.shares_outstanding)
    /\ RLt(equiv.in.terminal_growth_rate, equiv.in.discount_rate)

\* C30: for the same starting free cash flow, growth rate, discount rate and
\* terminal growth below the discount rate, either both implementations fail
\* or the enterprise value inside calculate_dcf_valor equals the ev of
\* dcf_from_fcf_list and the equity values agree for net cash = cash - debt.
C30_DcfImplementationsAgree ==
    EquivComparable =>
        /\ equiv.valor_ev.status = "ok" <=> equiv.page.status = "ok"
        /\ equiv.valor_ev.status = "ok" =>
              /\ equiv.page.ev = equiv.valor_ev.value
              /\ equiv.page.equity = equiv.valor_equity.value

\* both implementations valuing two years of growing cash flows with debt,
\* cash and a terminal growth
C30_Witness ==
    /\ EquivComparable
    /\ equiv.in.years = MaxValorYears
    /\ ~IsZero(equiv.in.revenue_growth_base)
    /\ ~IsZero(equiv.in.terminal_growth_rate)
    /\ equiv.in.total_debt # None /\ equiv.in.cash # None
    /\ equiv.valor_ev.status = "ok"
    /\ equiv.page.ev = equiv.valor_ev.value

====
